---- MODULE Spec2Model ----
(***************************************************************************)
(* Model of the migration orchestrator (migrator.go) running against the   *)
(* SQLite persistence adapter.  The database is the pair                   *)
(* (tableExists, history); the Migrator is the pair (migrations,           *)
(* repeatable).  Every public operation is one atomic action: the          *)
(* orchestrator is single-threaded and synchronous.                        *)
(*                                                                         *)
(* Left out: the Date and ExecutionTime fields of a record (wall-clock     *)
(* values no decision reads).  A script is an opaque token; its MD5        *)
(* digest is an injective tag of that token.                               *)
(***************************************************************************)
EXTENDS Integers, Sequences, FiniteSets, TLC

(***************************************************************************)
(* Bounds of the model.                                                    *)
(***************************************************************************)
\* registered migrations of one Migrator (sequential + repeatable)
MaxReg == 2
\* rows of the migrations table
MaxHist == 3
\* Migrators constructed on the database, one after the other
MaxStarts == 2
\* rows the table holds before the first Migrator is constructed
MaxForeign == 2
\* executions of one callable under an adapter whose writes fail
MaxRuns == 2
\* processes that run Migrate at the same time
NumProcs == 2
\* lines of a script handed to Statements
MaxLines == 4

(***************************************************************************)
(* Constants of the program.                                               *)
(***************************************************************************)
\* A Version is a Go string: here the tuple of its characters.
VersionNone == <<>>
VersionRepeatable == <<"R">>
StatusSuccess == "success"
StatusFailed == "failed"
TypeGo == "Go"
TypeSQL == "SQL"
TypeBaseline == "Baseline"

\* the error values the operations return
ErrNil == "nil"
ErrFailedMigration == "detected a failed migration"
ErrUnknownStatus == "unknown status in migration"
ErrCannotExecute == "cannot execute migration"
ErrRecordMigration == "record migration"
ErrExecute == "execute error"
ErrBaseline == "unable to baseline: found existing migrations"
ErrAdapter == "adapter error"

(***************************************************************************)
(* Inputs the host application draws from.                                 *)
(***************************************************************************)
\* "10" follows "2" as a number and precedes it as a string
SeqVersions == {<<"2">>, <<"1", "0">>}
BaselineVersions == {<<"2">>}
\* of the sequential migrations and of the baseline
SeqDescriptions == {"a"}
SeqScripts == {"s1"}
\* of the repeatable migrations
Descriptions == {"a", "b"}
Scripts == {"s1", "s2"}
GoDescriptions == {"b"}
\* a CommandFunc value: nil or a function
Commands == {"nil", "fn"}

VARIABLES
  migrations,   \* Migrator.migrations: the sequential migrations, as registered
  repeatable,   \* Migrator.repeatable: the repeatable migrations, as registered
  tableExists,  \* the database holds the migrations table
  history,      \* the rows of the migrations table, in insertion order
  runs,         \* per registered migration: executions of its callable on the
                \* present database contents
  log,          \* the lines the last operation sent to the log sink
  io,           \* the calls the last operation made to the callables and to
                \* the adapter, each with the error it returned
  starts,       \* Migrators constructed so far
  procs,        \* per process running Migrate beside the others: the local
                \* variables of its call (no such process: the empty sequence)
  call          \* the last operation: its name, arguments and result

vars == <<migrations, repeatable, tableExists, history, runs, log, io, starts, procs,
          call>>

(***************************************************************************)
(* Version comparison.                                                     *)
(***************************************************************************)
Digits == {"0", "1", "2", "3", "4", "5", "6", "7", "8", "9"}

DigitVal(c) ==
  CASE c = "0" -> 0 [] c = "1" -> 1 [] c = "2" -> 2 [] c = "3" -> 3
    [] c = "4" -> 4 [] c = "5" -> 5 [] c = "6" -> 6 [] c = "7" -> 7
    [] c = "8" -> 8 [] c = "9" -> 9

RECURSIVE ParseUint(_, _)
ParseUint(s, acc) ==
  IF s = <<>> THEN acc ELSE ParseUint(Tail(s), acc * 10 + DigitVal(Head(s)))

\* the value of an optionally signed decimal numeral of a few digits, 0 for
\* anything else: what strconv.ParseInt(s, 10, 64) returns for a token that
\* short
ParseInt(s) ==
  LET signed == s # <<>> /\ Head(s) \in {"+", "-"}
      body == IF signed THEN Tail(s) ELSE s
  IN IF body = <<>> \/ \E i \in 1..Len(body) : body[i] \notin Digits
       THEN 0
       ELSE IF signed /\ Head(s) = "-"
              THEN 0 - ParseUint(body, 0)
              ELSE ParseUint(body, 0)

\* the largest and the smallest value of 64 bits, as digits: 2^63 - 1 and
\* the magnitude of -2^63
MaxInt64 ==
  <<"9", "2", "2", "3", "3", "7", "2", "0", "3", "6", "8", "5", "4", "7", "7", "5", "8", "0", "7">>
MinInt64 ==
  <<"9", "2", "2", "3", "3", "7", "2", "0", "3", "6", "8", "5", "4", "7", "7", "5", "8", "0", "8">>

RECURSIVE StripZeros(_)
StripZeros(d) ==
  IF d # <<>> /\ Head(d) = "0" THEN StripZeros(Tail(d)) ELSE d

\* x < y, for magnitudes written without leading zeros
RECURSIVE DigitsLess(_, _)
DigitsLess(x, y) ==
  IF Len(x) # Len(y) THEN Len(x) < Len(y)
  ELSE IF x = <<>> THEN FALSE
  ELSE IF Head(x) # Head(y) THEN DigitVal(Head(x)) < DigitVal(Head(y))
  ELSE DigitsLess(Tail(x), Tail(y))

\* strconv.ParseInt(s, 10, 64) with its error dropped, for a token of any
\* length: sign and magnitude of the value.  A syntax error gives 0; a value
\* out of range gives the nearest value of 64 bits.
ParseInt64(s) ==
  LET signed == s # <<>> /\ Head(s) \in {"+", "-"}
      body == IF signed THEN Tail(s) ELSE s
      neg == signed /\ Head(s) = "-"
      limit == IF neg THEN MinInt64 ELSE MaxInt64
  IN IF body = <<>> \/ \E i \in 1..Len(body) : body[i] \notin Digits
       THEN [neg |-> FALSE, mag |-> <<>>]
       ELSE LET mag == StripZeros(body)
            IN [neg |-> neg /\ mag # <<>>,
                mag |-> IF DigitsLess(limit, mag) THEN limit ELSE mag]

\* ai <= bi
LessEq64(x, y) ==
  IF x.neg # y.neg THEN x.neg
  ELSE IF x.neg THEN ~DigitsLess(x.mag, y.mag)
  ELSE ~DigitsLess(y.mag, x.mag)

\* variant: the comparison is strict
LEQ_Strict(a, b) == ParseInt(a) < ParseInt(b)

LEQ(a, b) == LessEq64(ParseInt64(a), ParseInt64(b))

IsRepeatable(m) == m.Version = VersionRepeatable

\* the digest of a script: injective on the scripts of the model
SQLChecksum(script) == <<"md5", script>>

\* the Checksum of a migration that was given none: the empty string
NoChecksum == <<>>

(***************************************************************************)
(* The SQLite adapter.                                                     *)
(***************************************************************************)
\* SELECT count(tbl_name) FROM sqlite_master ...
ExistsMigrationsTable(tbl) == tbl

\* variant: a table without the key on rank
RecordMigration_NoKey(rows, m) ==
  [rows |-> Append(rows, m), err |-> ErrNil]

\* rank is INTEGER with PRIMARY KEY (rank): the rowid of the table.  A row
\* whose rank is already present is rejected.
RecordMigration(rows, m) ==
  IF \E i \in 1..Len(rows) : rows[i].Rank = m.Rank
    THEN [rows |-> rows, err |-> ErrAdapter]
    ELSE [rows |-> Append(rows, m), err |-> ErrNil]

RECURSIVE SortByRank(_)
SortByRank(rows) ==
  IF rows = <<>> THEN <<>>
  ELSE LET i == CHOOSE i \in 1..Len(rows) :
                  \A j \in 1..Len(rows) : rows[i].Rank <= rows[j].Rank
       IN <<rows[i]>> \o SortByRank(SubSeq(rows, 1, i - 1) \o SubSeq(rows, i + 1, Len(rows)))

\* SELECT ... FROM migrations, with no ORDER BY: a scan of the table in
\* rowid order, that is in ascending rank.
ListMigrations(rows) == SortByRank(rows)

(***************************************************************************)
(* The environment of one operation: which execution of a callable fails   *)
(* (failAt: its ordinal among the callables the operation runs, 0 for      *)
(* none) and which adapter call fails (afault; wfailAt: the ordinal of the *)
(* failing RecordMigration made by install, 0 for none; bfail: the write   *)
(* of the baseline record fails).                                          *)
(***************************************************************************)
Healthy(failAt) ==
  [failAt |-> failAt, afault |-> "none", wfailAt |-> 0, bfail |-> FALSE]

\* one call to a collaborator: ev is "execute" for mig.Execute and the name of
\* the Support method otherwise; kind, idx name the registered migration,
\* rank and status are those of the record handed to RecordMigration
Event(ev, kind, idx, rank, status, err) ==
  [ev |-> ev, kind |-> kind, idx |-> idx, rank |-> rank, status |-> status,
   err |-> err]

\* the operation in state st called the adapter method ev and got err
Did(st, ev, err) ==
  [st EXCEPT !.io = Append(@, Event(ev, "", 0, 0, "", err)), !.err = err]

(***************************************************************************)
(* Migrate: the scan of the history.                                       *)
(***************************************************************************)
\* checksumsRepeatable[mig.Description] = mig.Checksum
PutChecksum(cs, d, c) ==
  [x \in (DOMAIN cs) \cup {d} |-> IF x = d THEN c ELSE cs[x]]

ScanStart ==
  [rank |-> 0, lastInstalled |-> VersionNone, checksumsRepeatable |-> <<>>,
   err |-> ErrNil]

\* variant: the status of a sequential record is not looked at
ScanRecord_AnyStatus(sc, mig) ==
  IF IsRepeatable(mig)
    THEN [sc EXCEPT !.checksumsRepeatable = PutChecksum(@, mig.Description, mig.Checksum),
                    !.rank = mig.Rank]
    ELSE [sc EXCEPT !.lastInstalled = mig.Version, !.rank = mig.Rank]

\* variant: the status is looked at before the kind of the record
ScanRecord_StatusFirst(sc, mig) ==
  IF mig.Status = StatusFailed
    THEN [sc EXCEPT !.err = ErrFailedMigration]
    ELSE IF IsRepeatable(mig)
      THEN [sc EXCEPT !.checksumsRepeatable = PutChecksum(@, mig.Description, mig.Checksum),
                      !.rank = mig.Rank]
      ELSE IF mig.Status = StatusSuccess
        THEN [sc EXCEPT !.lastInstalled = mig.Version, !.rank = mig.Rank]
        ELSE [sc EXCEPT !.err = ErrUnknownStatus]

\* what one record of the history does to the scan; the loop stops at the
\* first record that sets err
ScanRecord(sc, mig) ==
  IF IsRepeatable(mig)
    THEN [sc EXCEPT !.checksumsRepeatable = PutChecksum(@, mig.Description, mig.Checksum),
                    !.rank = mig.Rank]
    ELSE IF mig.Status = StatusFailed
      THEN [sc EXCEPT !.err = ErrFailedMigration]
      ELSE IF mig.Status = StatusSuccess
        THEN [sc EXCEPT !.lastInstalled = mig.Version, !.rank = mig.Rank]
        ELSE [sc EXCEPT !.err = ErrUnknownStatus]

RECURSIVE ScanInstalled(_, _)
ScanInstalled(installed, sc) ==
  IF installed = <<>> \/ sc.err # ErrNil
    THEN sc
    ELSE ScanInstalled(Tail(installed), ScanRecord(sc, Head(installed)))

(***************************************************************************)
(* install.                                                                *)
(***************************************************************************)
\* variant: the record says success whatever the callable returned
InstallRecord_AlwaysSuccess(mig, rank, xerr) ==
  [Rank |-> rank, Version |-> mig.Version, Description |-> mig.Description,
   Type |-> mig.Type, Checksum |-> mig.Checksum, Status |-> StatusSuccess]

\* the record install hands to the adapter
InstallRecord(mig, rank, xerr) ==
  [Rank |-> rank, Version |-> mig.Version, Description |-> mig.Description,
   Type |-> mig.Type, Checksum |-> mig.Checksum,
   Status |-> IF xerr THEN StatusFailed ELSE StatusSuccess]

\* what install returns once the callable and the adapter's write are done
InstallResult(xerr, rErr) ==
  IF rErr # ErrNil THEN ErrRecordMigration
  ELSE IF xerr THEN ErrExecute ELSE ErrNil

\* the errors the returned error is built from: fmt.Errorf formats mig and
\* rErr into the record-migration error; the callable's error is returned as
\* it is
InstallWrapped(xerr, rErr) ==
  IF rErr # ErrNil THEN {rErr} ELSE {}

\* st is the state of the running operation; kind and idx name mig in the
\* registry
install(st, kind, idx, mig, env) ==
  IF mig.Execute = "nil"
    THEN [st EXCEPT !.err = ErrCannotExecute]
    ELSE LET n == st.calls + 1
             xerr == (n = env.failAt)
             rec == InstallRecord(mig, st.rank, xerr)
             w == IF n = env.wfailAt
                    THEN [rows |-> st.rows, err |-> ErrAdapter]
                    ELSE RecordMigration(st.rows, rec)
         IN [st EXCEPT !.log = Append(@, [msg |-> "installing", kind |-> kind, idx |-> idx]),
                       !.io = @ \o <<Event("execute", kind, idx, 0, "",
                                            IF xerr THEN ErrExecute ELSE ErrNil),
                                      Event("record", kind, idx, rec.Rank, rec.Status, w.err)>>,
                       !.calls = n,
                       !.runs[kind][idx] = @ + 1,
                       !.rows = w.rows,
                       !.err = InstallResult(xerr, w.err),
                       !.wrapped = InstallWrapped(xerr, w.err)]

(***************************************************************************)
(* Migrate: the two loops.                                                 *)
(***************************************************************************)
\* variants of the comparison: strict, and of the strings instead of the
\* numbers
SkipInstalled_Strict(mig, lastInstalled) ==
  ParseInt(mig.Version) < ParseInt(lastInstalled)

CharCode(c) == IF c \in Digits THEN DigitVal(c) ELSE 10

RECURSIVE TextLEQ(_, _)
TextLEQ(a, b) ==
  IF a = <<>> THEN TRUE
  ELSE IF b = <<>> THEN FALSE
  ELSE IF Head(a) = Head(b) THEN TextLEQ(Tail(a), Tail(b))
  ELSE CharCode(Head(a)) < CharCode(Head(b))

SkipInstalled_Text(mig, lastInstalled) == TextLEQ(mig.Version, lastInstalled)

SkipInstalled(mig, lastInstalled) == LEQ(mig.Version, lastInstalled)

\* variant: the checksum is not compared
SkipRepeatable_AnyChecksum(mig, checksums) ==
  mig.Description \in DOMAIN checksums

SkipRepeatable(mig, checksums) ==
  /\ mig.Description \in DOMAIN checksums
  /\ checksums[mig.Description] = mig.Checksum

\* variant: the rank is incremented twice
NextRank_Twice(rank) == rank + 2

\* rank++
NextRank(rank) == rank + 1

\* variant: the loop goes on after an install error
RECURSIVE InstallPending_NoAbort(_, _, _, _, _)
InstallPending_NoAbort(migs, i, st, lastInstalled, env) ==
  IF i > Len(migs)
    THEN st
    ELSE IF SkipInstalled(migs[i], lastInstalled)
      THEN InstallPending_NoAbort(migs, i + 1,
             [st EXCEPT !.log = Append(@, [msg |-> "skipping installed migration",
                                           kind |-> "seq", idx |-> i])],
             lastInstalled, env)
      ELSE InstallPending_NoAbort(migs, i + 1,
             install([st EXCEPT !.rank = NextRank(@)], "seq", i, migs[i], env),
             lastInstalled, env)

RECURSIVE InstallPending(_, _, _, _, _)
InstallPending(migs, i, st, lastInstalled, env) ==
  IF i > Len(migs) \/ st.err # ErrNil
    THEN st
    ELSE IF SkipInstalled(migs[i], lastInstalled)
      THEN InstallPending(migs, i + 1,
             [st EXCEPT !.log = Append(@, [msg |-> "skipping installed migration",
                                           kind |-> "seq", idx |-> i])],
             lastInstalled, env)
      ELSE InstallPending(migs, i + 1,
             install([st EXCEPT !.rank = NextRank(@)], "seq", i, migs[i], env),
             lastInstalled, env)

RECURSIVE InstallRepeatable(_, _, _, _, _)
InstallRepeatable(reps, i, st, checksums, env) ==
  IF i > Len(reps) \/ st.err # ErrNil
    THEN st
    ELSE IF SkipRepeatable(reps[i], checksums)
      THEN InstallRepeatable(reps, i + 1,
             [st EXCEPT !.log = Append(@, [msg |-> "skipping repeatable migration",
                                           kind |-> "rep", idx |-> i])],
             checksums, env)
      ELSE InstallRepeatable(reps, i + 1,
             install([st EXCEPT !.rank = NextRank(@)], "rep", i, reps[i], env),
             checksums, env)

\* the adapter calls both Migrate and Baseline begin with: the exists check,
\* the creation of a missing table, the read of the history
OpenTable(st, env) ==
  IF env.afault = "exists" THEN Did(st, "exists", ErrAdapter)
  ELSE LET s0 == Did(st, "exists", ErrNil)
       IN IF ExistsMigrationsTable(s0.tableExists)
            THEN Did(s0, "list", IF env.afault = "list" THEN ErrAdapter ELSE ErrNil)
            ELSE IF env.afault = "create" THEN Did(s0, "create", ErrAdapter)
            ELSE Did([Did(s0, "create", ErrNil) EXCEPT !.tableExists = TRUE],
                     "list", IF env.afault = "list" THEN ErrAdapter ELSE ErrNil)

\* variant: Migrate first removes the records of failed attempts
MigrateFrom_Repairing(st, migs, reps, env) ==
  LET s1 == OpenTable([st EXCEPT !.rows = SelectSeq(@, LAMBDA r : r.Status # StatusFailed)],
                      env)
  IN IF s1.err # ErrNil THEN s1
     ELSE LET sc == ScanInstalled(ListMigrations(s1.rows), ScanStart)
          IN IF sc.err # ErrNil THEN [s1 EXCEPT !.err = sc.err]
             ELSE InstallRepeatable(reps, 1,
                    InstallPending(migs, 1, [s1 EXCEPT !.rank = sc.rank],
                                   sc.lastInstalled, env),
                    sc.checksumsRepeatable, env)

\* Migrate, from the state st of the database
MigrateFrom(st, migs, reps, env) ==
  LET s1 == OpenTable(st, env)
  IN IF s1.err # ErrNil THEN s1
     ELSE LET sc == ScanInstalled(ListMigrations(s1.rows), ScanStart)
          IN IF sc.err # ErrNil THEN [s1 EXCEPT !.err = sc.err]
             ELSE InstallRepeatable(reps, 1,
                    InstallPending(migs, 1, [s1 EXCEPT !.rank = sc.rank],
                                   sc.lastInstalled, env),
                    sc.checksumsRepeatable, env)

(***************************************************************************)
(* Baseline.                                                               *)
(***************************************************************************)
BaselineRecord(version, description) ==
  [Rank |-> 1, Version |-> version, Description |-> description,
   Type |-> TypeBaseline, Checksum |-> NoChecksum, Status |-> StatusSuccess]

\* variant: the history is not looked at
FoundExisting_Never(installed) == FALSE

\* len(installed) > 0
FoundExisting(installed) == Len(installed) > 0

BaselineFrom(st, migs, reps, version, description, env) ==
  LET s1 == OpenTable(st, env)
  IN IF s1.err # ErrNil THEN s1
     ELSE IF FoundExisting(ListMigrations(s1.rows))
       THEN [s1 EXCEPT !.err = ErrBaseline]
       ELSE LET rec == BaselineRecord(version, description)
                w == IF env.bfail
                       THEN [rows |-> s1.rows, err |-> ErrAdapter]
                       ELSE RecordMigration(s1.rows, rec)
            \* the error of this write is dropped
            IN MigrateFrom([s1 EXCEPT !.rows = w.rows,
                                      !.io = Append(@, Event("record", "", 0, rec.Rank,
                                                             rec.Status, w.err))],
                           migs, reps, [env EXCEPT !.afault = "none"])

(***************************************************************************)
(* Migrate calls of several processes on one database, each process with   *)
(* its own Migrator holding the same registry.  A process takes one step   *)
(* per call to the adapter or to a callable; its local variables are those *)
(* of Migrate: installed, rank, lastInstalled, checksumsRepeatable, the    *)
(* position in the loops.                                                  *)
(***************************************************************************)
Procs == 1..NumProcs

IdleProc ==
  [pc |-> "idle", installed |-> <<>>, rank |-> 0, lastInstalled |-> VersionNone,
   checksumsRepeatable |-> <<>>, kind |-> "seq", i |-> 1, xerr |-> FALSE,
   err |-> ErrNil, io |-> <<>>]

(***************************************************************************)
(* The operations.                                                         *)
(***************************************************************************)
NoRuns(migs, reps) ==
  [seq |-> [i \in 1..Len(migs) |-> 0], rep |-> [i \in 1..Len(reps) |-> 0]]

\* the state an operation starts from
Start ==
  [tableExists |-> tableExists, rows |-> history, runs |-> runs, log |-> <<>>,
   io |-> <<>>, err |-> ErrNil, wrapped |-> {}, rank |-> 0, calls |-> 0]

Called(op, err, version, description, info) ==
  [op |-> op, err |-> err, wrapped |-> {}, version |-> version,
   description |-> description, info |-> info]

Init ==
  /\ migrations = <<>>
  /\ repeatable = <<>>
  /\ tableExists = FALSE
  /\ history = <<>>
  /\ runs = NoRuns(<<>>, <<>>)
  /\ log = <<>>
  /\ io = <<>>
  /\ procs = <<>>
  /\ call = Called("NewMigrator", ErrNil, VersionNone, "", <<>>)
  /\ starts = 1

\* a process start: a Migrator with an empty registry on the same database
NewMigrator ==
  /\ Len(migrations) + Len(repeatable) > 0
  /\ starts < MaxStarts
  /\ starts' = starts + 1
  /\ migrations' = <<>>
  /\ repeatable' = <<>>
  /\ runs' = NoRuns(<<>>, <<>>)
  /\ log' = <<>>
  /\ io' = <<>>
  /\ call' = Called("NewMigrator", ErrNil, VersionNone, "", <<>>)
  /\ UNCHANGED <<tableExists, history, procs>>

Add(mig) ==
  /\ Len(migrations) + Len(repeatable) < MaxReg
  /\ IF IsRepeatable(mig)
       THEN /\ repeatable' = Append(repeatable, mig)
            /\ runs' = [runs EXCEPT !.rep = Append(@, 0)]
            /\ UNCHANGED migrations
       ELSE /\ migrations' = Append(migrations, mig)
            /\ runs' = [runs EXCEPT !.seq = Append(@, 0)]
            /\ UNCHANGED repeatable
  /\ log' = <<>>
  /\ io' = <<>>
  /\ call' = Called("Add", ErrNil, VersionNone, "", <<>>)
  /\ UNCHANGED <<tableExists, history, starts, procs>>

SQLMigration(version, description, script) ==
  [Version |-> version, Description |-> description, Type |-> TypeSQL,
   Checksum |-> SQLChecksum(script), Execute |-> "fn"]

GoMigration(version, description, execute) ==
  [Version |-> version, Description |-> description, Type |-> TypeGo,
   Checksum |-> NoChecksum, Execute |-> execute]

AddSQLMigration ==
  \E v \in SeqVersions, d \in SeqDescriptions, s \in SeqScripts :
    Add(SQLMigration(v, d, s))

AddRepeatableSQLMigration ==
  \E d \in Descriptions, s \in Scripts :
    Add(SQLMigration(VersionRepeatable, d, s))

AddGoMigration ==
  \E v \in SeqVersions, d \in SeqDescriptions, f \in Commands :
    Add(GoMigration(v, d, f))

AddRepeatableGoMigration ==
  \E d \in GoDescriptions, f \in Commands :
    Add(GoMigration(VersionRepeatable, d, f))

\* the effect of an operation that ended in state r
Ended(r) ==
  /\ Len(r.rows) <= MaxHist
  /\ tableExists' = r.tableExists
  /\ history' = r.rows
  /\ runs' = r.runs
  /\ log' = r.log
  /\ io' = r.io
  /\ UNCHANGED <<migrations, repeatable, starts, procs>>

Migrate ==
  \E failAt \in 0..MaxReg :
    \E r \in {MigrateFrom(Start, migrations, repeatable, Healthy(failAt))} :
       /\ failAt <= r.calls
       /\ Ended(r)
       /\ call' = [Called("Migrate", r.err, VersionNone, "", <<>>)
                     EXCEPT !.wrapped = r.wrapped]

\* Baseline with a version of the set versions
BaselineTo(versions) ==
  \E version \in versions, description \in SeqDescriptions, failAt \in 0..MaxReg :
    \E r \in {BaselineFrom(Start, migrations, repeatable, version, description,
                          Healthy(failAt))} :
       /\ failAt <= r.calls
       /\ Ended(r)
       /\ call' = [Called("Baseline", r.err, version, description, <<>>)
                     EXCEPT !.wrapped = r.wrapped]

Baseline == BaselineTo(BaselineVersions)

\* SQLiteSupport.Clean empties sqlite_master: the migrations table goes with
\* everything the callables created
Clean ==
  /\ tableExists' = FALSE
  /\ history' = <<>>
  /\ runs' = NoRuns(migrations, repeatable)
  /\ log' = <<>>
  /\ io' = <<Event("clean", "", 0, 0, "", ErrNil)>>
  /\ call' = Called("Clean", ErrNil, VersionNone, "", <<>>)
  /\ UNCHANGED <<migrations, repeatable, starts, procs>>

\* the query of ListMigrations fails when the table is missing; Info logs the
\* error and returns what it got
Info ==
  /\ log' = IF tableExists THEN <<>> ELSE <<[msg |-> "error", kind |-> "", idx |-> 0]>>
  /\ io' = <<Event("list", "", 0, 0, "", IF tableExists THEN ErrNil ELSE ErrAdapter)>>
  /\ call' = Called("Info", ErrNil, VersionNone, "",
                    IF tableExists THEN ListMigrations(history) ELSE <<>>)
  /\ UNCHANGED <<migrations, repeatable, tableExists, history, runs, starts, procs>>

Next ==
  \/ AddSQLMigration
  \/ AddRepeatableSQLMigration
  \/ AddGoMigration
  \/ AddRepeatableGoMigration
  \/ Migrate
  \/ Baseline
  \/ Clean
  \/ Info

\* one process: a Migrator on a fresh database
Spec == Init /\ [][Next]_vars

\* processes that follow one another on the same database, each with the
\* registry its host application builds
NextRestart ==
  \/ Next
  \/ NewMigrator

SpecRestart == Init /\ [][NextRestart]_vars

(***************************************************************************)
(* An adapter whose calls can fail: the exists check, the creation of the  *)
(* table, the read of the history, a write made by install, the write of   *)
(* the baseline record.                                                    *)
(***************************************************************************)
AdapterFaults == {"none", "exists", "create", "list"}

\* a callable whose record was not written runs again: its executions are
\* counted up to MaxRuns
RunsBounded(r) ==
  /\ \A i \in DOMAIN r.runs.seq : r.runs.seq[i] <= MaxRuns
  /\ \A i \in DOMAIN r.runs.rep : r.runs.rep[i] <= MaxRuns

Faulty(failAt, afault, wfailAt, bfail) ==
  [failAt |-> failAt, afault |-> afault, wfailAt |-> wfailAt, bfail |-> bfail]

\* one adapter call of the operation fails
OneFault(afault, wfailAt, bfail) ==
  (IF afault # "none" THEN 1 ELSE 0) + (IF wfailAt > 0 THEN 1 ELSE 0)
    + (IF bfail THEN 1 ELSE 0) = 1

MigrateFault ==
  \E failAt \in 0..MaxReg, afault \in AdapterFaults, wfailAt \in 0..MaxReg :
    /\ OneFault(afault, wfailAt, FALSE)
    /\ \E r \in {MigrateFrom(Start, migrations, repeatable,
                            Faulty(failAt, afault, wfailAt, FALSE))} :
       /\ failAt <= r.calls
       /\ wfailAt <= r.calls
       /\ RunsBounded(r)
       /\ Ended(r)
       /\ call' = [Called("Migrate", r.err, VersionNone, "", <<>>)
                     EXCEPT !.wrapped = r.wrapped]

BaselineFault ==
  \E version \in BaselineVersions, description \in SeqDescriptions,
     failAt \in 0..MaxReg, afault \in AdapterFaults, wfailAt \in 0..MaxReg,
     bfail \in BOOLEAN :
    /\ OneFault(afault, wfailAt, bfail)
    /\ \E r \in {BaselineFrom(Start, migrations, repeatable, version,
                             description, Faulty(failAt, afault, wfailAt, bfail))} :
       /\ failAt <= r.calls
       /\ wfailAt <= r.calls
       /\ RunsBounded(r)
       /\ Ended(r)
       /\ call' = [Called("Baseline", r.err, version, description, <<>>)
                     EXCEPT !.wrapped = r.wrapped]

NextFault ==
  \/ Next
  \/ MigrateFault
  \/ BaselineFault

SpecFault == Init /\ [][NextFault]_vars

(***************************************************************************)
(* The steps of concurrent Migrate calls.                                  *)
(***************************************************************************)
RaceRegistries ==
  { <<>>,
    <<GoMigration(<<"2">>, "a", "fn")>>,
    <<GoMigration(<<"2">>, "a", "nil")>>,
    <<GoMigration(<<"2">>, "a", "fn"), GoMigration(<<"1", "0">>, "a", "fn")>> }

RaceRepeatables ==
  { <<>>, <<SQLMigration(VersionRepeatable, "a", "s1")>> }

InitRace ==
  /\ migrations \in RaceRegistries
  /\ repeatable \in RaceRepeatables
  /\ tableExists \in BOOLEAN
  /\ history = <<>>
  /\ runs = NoRuns(migrations, repeatable)
  /\ log = <<>>
  /\ io = <<>>
  /\ call = Called("NewMigrator", ErrNil, VersionNone, "", <<>>)
  /\ starts = 1
  /\ procs = [p \in Procs |-> IdleProc]

\* process p moves to the local state q; nothing else changes
Moves(p, q) == procs' = [procs EXCEPT ![p] = q]

\* Migrate of process p returns err
Returns(p, q, err) == Moves(p, [q EXCEPT !.pc = "done", !.err = err])

\* the migration process p stands at
Current(p) ==
  IF procs[p].kind = "seq" THEN migrations[procs[p].i] ELSE repeatable[procs[p].i]

AtEnd(p) ==
  procs[p].i > Len(IF procs[p].kind = "seq" THEN migrations ELSE repeatable)

\* ExistsMigrationsTable
RaceExists ==
  \E p \in Procs :
    /\ procs[p].pc = "idle"
    /\ Moves(p, [procs[p] EXCEPT !.pc = IF ExistsMigrationsTable(tableExists)
                                          THEN "list" ELSE "create"])
    /\ UNCHANGED <<migrations, repeatable, tableExists, history, runs, log, io, starts, call>>

\* CreateMigrationsTable: CREATE TABLE fails when the table is there
RaceCreate ==
  \E p \in Procs :
    /\ procs[p].pc = "create"
    /\ IF tableExists
         THEN Returns(p, procs[p], ErrAdapter) /\ UNCHANGED tableExists
         ELSE Moves(p, [procs[p] EXCEPT !.pc = "list"]) /\ tableExists' = TRUE
    /\ UNCHANGED <<migrations, repeatable, history, runs, log, io, starts, call>>

\* ListMigrations and the scan of what it returned
RaceList ==
  \E p \in Procs :
    /\ procs[p].pc = "list"
    /\ LET installed == ListMigrations(history)
           sc == ScanInstalled(installed, ScanStart)
           q == [procs[p] EXCEPT !.installed = installed]
       IN IF sc.err # ErrNil
            THEN Returns(p, q, sc.err)
            ELSE Moves(p, [q EXCEPT !.pc = "loop", !.kind = "seq", !.i = 1,
                                    !.rank = sc.rank,
                                    !.lastInstalled = sc.lastInstalled,
                                    !.checksumsRepeatable = sc.checksumsRepeatable])
    /\ UNCHANGED <<migrations, repeatable, tableExists, history, runs, log, io, starts, call>>

\* the end of a loop
RaceLoopEnd ==
  \E p \in Procs :
    /\ procs[p].pc = "loop"
    /\ AtEnd(p)
    /\ IF procs[p].kind = "seq"
         THEN Moves(p, [procs[p] EXCEPT !.kind = "rep", !.i = 1])
         ELSE Returns(p, procs[p], ErrNil)
    /\ UNCHANGED <<migrations, repeatable, tableExists, history, runs, log, io, starts, call>>

\* a migration the loop passes over
RaceSkip ==
  \E p \in Procs :
    /\ procs[p].pc = "loop"
    /\ ~AtEnd(p)
    /\ IF procs[p].kind = "seq"
         THEN /\ SkipInstalled(Current(p), procs[p].lastInstalled)
              /\ log' = Append(log, [msg |-> "skipping installed migration",
                                     kind |-> "seq", idx |-> procs[p].i])
         ELSE /\ SkipRepeatable(Current(p), procs[p].checksumsRepeatable)
              /\ log' = Append(log, [msg |-> "skipping repeatable migration",
                                     kind |-> "rep", idx |-> procs[p].i])
    /\ Moves(p, [procs[p] EXCEPT !.i = @ + 1])
    /\ UNCHANGED <<migrations, repeatable, tableExists, history, runs, io, starts, call>>

\* rank++ and the first half of install: the callable runs, and fails or not
RaceExecute ==
  \E p \in Procs, xerr \in BOOLEAN :
    /\ procs[p].pc = "loop"
    /\ ~AtEnd(p)
    /\ IF procs[p].kind = "seq"
         THEN ~SkipInstalled(Current(p), procs[p].lastInstalled)
         ELSE ~SkipRepeatable(Current(p), procs[p].checksumsRepeatable)
    /\ LET q == [procs[p] EXCEPT !.rank = NextRank(@)]
       IN IF Current(p).Execute = "nil"
            THEN /\ ~xerr
                 /\ Returns(p, q, ErrCannotExecute)
                 /\ UNCHANGED <<runs, log>>
            ELSE /\ Moves(p, [q EXCEPT !.pc = "record", !.xerr = xerr,
                                       !.io = Append(@, Event("execute", q.kind, q.i, 0, "",
                                                 IF xerr THEN ErrExecute ELSE ErrNil))])
                 /\ runs' = [runs EXCEPT ![q.kind][q.i] = @ + 1]
                 /\ log' = Append(log, [msg |-> "installing", kind |-> q.kind, idx |-> q.i])
    /\ UNCHANGED <<migrations, repeatable, tableExists, history, io, starts, call>>

\* the second half of install: the record is written, or rejected
RaceRecord ==
  \E p \in Procs :
    /\ procs[p].pc = "record"
    /\ LET rec == InstallRecord(Current(p), procs[p].rank, procs[p].xerr)
           w == RecordMigration(history, rec)
           err == InstallResult(procs[p].xerr, w.err)
           q == [procs[p] EXCEPT !.io = Append(@, Event("record", procs[p].kind, procs[p].i,
                                                         rec.Rank, rec.Status, w.err))]
       IN /\ Len(w.rows) <= MaxHist
          /\ history' = w.rows
          /\ IF err # ErrNil
               THEN Returns(p, q, err)
               ELSE Moves(p, [q EXCEPT !.pc = "loop", !.i = @ + 1])
    /\ UNCHANGED <<migrations, repeatable, tableExists, runs, log, io, starts, call>>

NextRace ==
  \/ RaceExists
  \/ RaceCreate
  \/ RaceList
  \/ RaceLoopEnd
  \/ RaceSkip
  \/ RaceExecute
  \/ RaceRecord

SpecRace == InitRace /\ [][NextRace]_vars

(***************************************************************************)
(* The statement splitter.  A string is the sequence of its characters;    *)
(* the script goes through bufio.Scanner line by line.                     *)
(***************************************************************************)
\* the pieces of the pattern "CREATE( TEMP| TEMPORARY)? TRIGGER.*"
KwCreate == <<"C", "R", "E", "A", "T", "E">>
KwTemp == <<" ", "T", "E", "M", "P">>
KwTemporary == <<" ", "T", "E", "M", "P", "O", "R", "A", "R", "Y">>
KwTrigger == <<" ", "T", "R", "I", "G", "G", "E", "R">>
\* the suffixes that terminate a statement
TriggerEnd == <<"E", "N", "D", ";">>
StatementEnd == <<";">>

\* unicode.IsSpace, on the characters of the model
IsSpace(c) == c \in {" ", "\t", "\n", "\r"}

RECURSIVE TrimLeft(_)
TrimLeft(s) ==
  IF s # <<>> /\ IsSpace(Head(s)) THEN TrimLeft(Tail(s)) ELSE s

RECURSIVE TrimRight(_)
TrimRight(s) ==
  IF s # <<>> /\ IsSpace(s[Len(s)]) THEN TrimRight(SubSeq(s, 1, Len(s) - 1)) ELSE s

\* variant: the line is taken as it is
TrimSpace_Not(s) == s

\* strings.TrimSpace
TrimSpace(s) == TrimRight(TrimLeft(s))

\* strings.HasSuffix
HasSuffix(s, suffix) ==
  /\ Len(s) >= Len(suffix)
  /\ SubSeq(s, Len(s) - Len(suffix) + 1, Len(s)) = suffix

\* pat stands in s from position i on
LiteralAt(s, i, pat) ==
  /\ i + Len(pat) - 1 <= Len(s)
  /\ SubSeq(s, i, i + Len(pat) - 1) = pat

\* the pattern matches from position i on: CREATE, one of the optional
\* words or none, TRIGGER, then anything
MatchTriggerAt(line, i) ==
  /\ LiteralAt(line, i, KwCreate)
  /\ LET j == i + Len(KwCreate)
     IN \/ LiteralAt(line, j, KwTrigger)
        \/ LiteralAt(line, j, KwTemp) /\ LiteralAt(line, j + Len(KwTemp), KwTrigger)
        \/ LiteralAt(line, j, KwTemporary)
             /\ LiteralAt(line, j + Len(KwTemporary), KwTrigger)

\* variant: no line is the head of a trigger
MatchTrigger_Never(line) == FALSE

\* regexp.MatchString: the pattern is not anchored, a match anywhere in the
\* line counts
MatchTrigger(line) == \E i \in 1..Len(line) : MatchTriggerAt(line, i)

\* bufio.ScanLines: the text up to the next newline without a trailing
\* carriage return; the last line needs no newline, an empty rest is no line
DropCR(s) ==
  IF s # <<>> /\ s[Len(s)] = "\r" THEN SubSeq(s, 1, Len(s) - 1) ELSE s

RECURSIVE ScanLines(_)
ScanLines(script) ==
  IF script = <<>> THEN <<>>
  ELSE IF \E i \in 1..Len(script) : script[i] = "\n"
    THEN LET i == CHOOSE i \in 1..Len(script) :
                    /\ script[i] = "\n"
                    /\ \A j \in 1..(i - 1) : script[j] # "\n"
         IN <<DropCR(SubSeq(script, 1, i - 1))>>
              \o ScanLines(SubSeq(script, i + 1, Len(script)))
    ELSE <<DropCR(script)>>

NewStatementBuilder ==
  [createTrigger |-> FALSE, terminated |-> FALSE, buffer |-> <<>>]

\* StatementBuilder.Append
StatementBuilderAppend(b, text) ==
  LET line == TrimSpace(text)
      createTrigger == IF Len(b.buffer) = 0 THEN MatchTrigger(line) ELSE b.createTrigger
      buffer == IF Len(b.buffer) = 0 THEN b.buffer ELSE b.buffer \o <<"\n">>
  IN [createTrigger |-> createTrigger,
      terminated |-> IF createTrigger THEN HasSuffix(line, TriggerEnd)
                                      ELSE HasSuffix(line, StatementEnd),
      buffer |-> buffer \o line]

IsTerminated(b) == b.terminated

Statement(b) == b.buffer

\* variant: what is left in the builder at the end of the input is returned
\* as a last statement
RECURSIVE StatementsLoop_Flush(_, _, _)
StatementsLoop_Flush(lines, builder, ss) ==
  IF lines = <<>>
    THEN IF Len(builder.buffer) = 0 THEN ss ELSE Append(ss, Statement(builder))
    ELSE LET b == StatementBuilderAppend(builder, Head(lines))
         IN IF IsTerminated(b)
              THEN StatementsLoop_Flush(Tail(lines), NewStatementBuilder,
                                        Append(ss, Statement(b)))
              ELSE StatementsLoop_Flush(Tail(lines), b, ss)

\* the loop of Statements over the scanned lines
RECURSIVE StatementsLoop(_, _, _)
StatementsLoop(lines, builder, ss) ==
  IF lines = <<>> THEN ss
  ELSE LET b == StatementBuilderAppend(builder, Head(lines))
       IN IF IsTerminated(b)
            THEN StatementsLoop(Tail(lines), NewStatementBuilder, Append(ss, Statement(b)))
            ELSE StatementsLoop(Tail(lines), b, ss)

Statements(script) == StatementsLoop(ScanLines(script), NewStatementBuilder, <<>>)

(***************************************************************************)
(* Scripts handed to Statements: up to MaxLines lines, each followed by a  *)
(* newline but for the last, which may or may not be.                      *)
(***************************************************************************)
InputLines ==
  { KwCreate \o KwTrigger \o <<" ", "t">>,
    <<"\t">> \o KwCreate \o KwTemp \o KwTrigger \o <<" ", "t">>,
    KwCreate \o KwTemporary \o KwTrigger \o <<" ", "t", " ">> \o TriggerEnd,
    <<"a", ";">>,
    <<" ", "b", ";", " ">>,
    <<"c">>,
    <<>>,
    <<" ", "\t">>,
    TriggerEnd \o <<"\r">> }

RECURSIVE JoinLines(_)
JoinLines(lines) ==
  IF lines = <<>> THEN <<>>
  ELSE IF Len(lines) = 1 THEN lines[1]
  ELSE lines[1] \o <<"\n">> \o JoinLines(Tail(lines))

InputScripts ==
  { JoinLines(f) \o tail :
      f \in UNION { [1..n -> InputLines] : n \in 0..MaxLines },
      tail \in {<<>>, <<"\n">>} }

\* a script is at hand, not split yet
InitSplit ==
  /\ migrations = <<>>
  /\ repeatable = <<>>
  /\ tableExists = FALSE
  /\ history = <<>>
  /\ runs = NoRuns(<<>>, <<>>)
  /\ log = <<>>
  /\ io = <<>>
  /\ procs = <<>>
  /\ starts = 1
  /\ \E script \in InputScripts :
       call = Called("script", ErrNil, VersionNone, "", [script |-> script, ss |-> <<>>])

CallStatements ==
  /\ call.op = "script"
  /\ call' = Called("Statements", ErrNil, VersionNone, "",
                    [script |-> call.info.script, ss |-> Statements(call.info.script)])
  /\ UNCHANGED <<migrations, repeatable, tableExists, history, runs, log, io, starts, procs>>

NextSplit == CallStatements

SpecSplit == InitSplit /\ [][NextSplit]_vars

(***************************************************************************)
(* Version tokens of every kind: LEQ applied to a pair of tokens, and      *)
(* Migrate and Baseline with versions that are not plain positive          *)
(* numerals.                                                               *)
(***************************************************************************)
Tokens ==
  { VersionNone, VersionRepeatable, <<"x">>, <<"1", "x">>,
    <<"0">>, <<"1">>, <<"2">>, <<"5">>, <<"9">>, <<"1", "0">>, <<"0", "5">>,
    <<"+", "5">>, <<"-", "1">>, <<"-", "0">>,
    MaxInt64, MinInt64, <<"9">> \o MaxInt64, <<"-">> \o MinInt64, <<"-", "9">> \o MaxInt64 }

OddVersions == {VersionNone, <<"x">>, <<"0">>, <<"2">>}

OddBaselines == {<<"-", "1">>, <<"0">>, <<"2">>}

\* two tokens are at hand, not compared yet
InitVersions ==
  /\ migrations = <<>>
  /\ repeatable = <<>>
  /\ tableExists = FALSE
  /\ history = <<>>
  /\ runs = NoRuns(<<>>, <<>>)
  /\ log = <<>>
  /\ io = <<>>
  /\ procs = <<>>
  /\ starts = 1
  /\ \E a \in Tokens, b \in Tokens :
       call = Called("versions", ErrNil, VersionNone, "", [a |-> a, b |-> b, leq |-> FALSE])

CallLEQ ==
  /\ call.op = "versions"
  /\ call' = Called("LEQ", ErrNil, VersionNone, "",
                    [call.info EXCEPT !.leq = LEQ(call.info.a, call.info.b)])
  /\ UNCHANGED <<migrations, repeatable, tableExists, history, runs, log, io, starts, procs>>

AddOddMigration ==
  \E v \in OddVersions : Add(GoMigration(v, "a", "fn"))

BaselineOdd == BaselineTo(OddBaselines)

NextVersions ==
  \/ CallLEQ
  \/ AddOddMigration
  \/ BaselineOdd
  \/ Migrate

SpecVersions == InitVersions /\ [][NextVersions]_vars

(***************************************************************************)
(* A database whose migrations table was filled by someone else: rows in   *)
(* rank order, of any version and any status text.                         *)
(***************************************************************************)
ForeignVersions == {<<"2">>, VersionRepeatable}
ForeignStatuses == {StatusSuccess, StatusFailed, "pending"}

ForeignRow(rank, version, status) ==
  [Rank |-> rank, Version |-> version, Description |-> "a", Type |-> TypeSQL,
   Checksum |-> SQLChecksum("s1"), Status |-> status]

ForeignHistories ==
  { [i \in DOMAIN f |-> ForeignRow(i, f[i][1], f[i][2])] :
      f \in UNION { [1..n -> ForeignVersions \X ForeignStatuses] : n \in 1..MaxForeign } }

InitForeign ==
  /\ migrations = <<>>
  /\ repeatable = <<>>
  /\ tableExists = TRUE
  /\ history \in ForeignHistories
  /\ runs = NoRuns(<<>>, <<>>)
  /\ log = <<>>
  /\ io = <<>>
  /\ procs = <<>>
  /\ call = Called("NewMigrator", ErrNil, VersionNone, "", <<>>)
  /\ starts = 1

SpecForeign == InitForeign /\ [][Next]_vars

(***************************************************************************)
(* Vocabulary of the properties.                                           *)
(***************************************************************************)
\* the last step was a call of op
IsCall(op) == call.op = op

\* the log lines of lg that say msg about migration idx of kind
Said(lg, msg, kind, idx) ==
  \E k \in 1..Len(lg) : lg[k] = [msg |-> msg, kind |-> kind, idx |-> idx]

\* install ran the callable of migration idx of kind
Installed(lg, kind, idx) == Said(lg, "installing", kind, idx)

Installs(lg) == SelectSeq(lg, LAMBDA e : e.msg = "installing")

\* the registry in the order Migrate walks it
Order(migs, reps) ==
  [k \in 1..(Len(migs) + Len(reps)) |->
     IF k <= Len(migs) THEN [kind |-> "seq", idx |-> k]
                       ELSE [kind |-> "rep", idx |-> k - Len(migs)]]

Entry(migs, reps, o) == IF o.kind = "seq" THEN migs[o.idx] ELSE reps[o.idx]

\* the numeric value the spec gives a version token
Num(v) == ParseInt(v)

\* versions of the sequential migrations are pairwise distinct, and so are
\* the descriptions of the repeatable ones
DistinctVersions(migs) ==
  \A i, j \in 1..Len(migs) : i # j => Num(migs[i].Version) # Num(migs[j].Version)

DistinctDescriptions(reps) ==
  \A i, j \in 1..Len(reps) : i # j => reps[i].Description # reps[j].Description

\* some registered migration has no callable
SomeNil == \E k \in 1..(Len(migrations) + Len(repeatable)) :
             Entry(migrations, repeatable, Order(migrations, repeatable)[k]).Execute = "nil"

(***************************************************************************)
(* C1.  Idempotence of Migrate: when a Migrate call returned no error, the *)
(* Migrate call that follows it on the same database with the same        *)
(* registry installs nothing (runs no callable, writes no record) and      *)
(* returns no error.  Stated for registries of pairwise distinct versions  *)
(* and descriptions, registered in any order.                              *)
(***************************************************************************)
C1_MigrateIdempotent ==
  [][ ( /\ IsCall("Migrate") /\ call.err = ErrNil
        /\ call'.op = "Migrate"
        /\ DistinctVersions(migrations) /\ DistinctDescriptions(repeatable) )
      => ( /\ call'.err = ErrNil
           /\ history' = history
           /\ runs' = runs
           /\ Installs(log') = <<>> ) ]_vars

(***************************************************************************)
(* C2.  Repeatable gating.                                                 *)
(***************************************************************************)
\* the rows of h that record a repeatable migration described d
RowsFor(h, d) ==
  SelectSeq(h, LAMBDA r : IsRepeatable(r) /\ r.Description = d)

\* h holds no record for the description of mig, or the checksum of the last
\* one differs from the checksum of mig
Due(h, mig) ==
  LET rs == RowsFor(h, mig.Description)
  IN rs = <<>> \/ rs[Len(rs)].Checksum # mig.Checksum

\* the call that wrote lg and returned err stopped before it got to run the
\* callable of repeatable migration i
StoppedBefore(lg, err, i) ==
  /\ err # ErrNil
  /\ \A j \in i..Len(repeatable) :
       ~Installed(lg, "rep", j) /\ ~Said(lg, "skipping repeatable migration", "rep", j)

\* C2 as stated: during Migrate a registered repeatable migration is
\* installed if and only if the history holds no record for its description
\* or the checksum of the last record for it differs from its own; two
\* successive Migrate calls never install it twice.  (Stated for registries
\* in which every migration has a callable and the descriptions of the
\* repeatable migrations are pairwise distinct.)
C2_GatingAsStated ==
  [][ (call'.op = "Migrate" /\ ~SomeNil /\ DistinctDescriptions(repeatable)) =>
        \A i \in 1..Len(repeatable) :
          /\ Installed(log', "rep", i) <=> Due(history, repeatable[i])
          /\ (IsCall("Migrate") /\ Installed(log, "rep", i))
               => ~Installed(log', "rep", i) ]_vars

\* C2 as amended: during Migrate a registered repeatable migration is
\* installed if and only if the call gets to it (it returns no error before
\* running its callable) and the history the call read holds no repeatable
\* record for its description or the checksum of the last such record
\* differs from its own; when no other registered repeatable migration has
\* its description, the Migrate call that follows the one that installed and
\* recorded it does not install it again.
C2_Gating ==
  [][ call'.op = "Migrate" =>
        \A i \in 1..Len(repeatable) :
          /\ Installed(log', "rep", i)
               <=> (Due(history, repeatable[i]) /\ ~StoppedBefore(log', call'.err, i))
          /\ ( /\ IsCall("Migrate")
               /\ Installed(log, "rep", i)
               /\ \E k \in 1..Len(history) :
                    /\ IsRepeatable(history[k])
                    /\ history[k].Description = repeatable[i].Description
                    /\ history[k].Checksum = repeatable[i].Checksum
               /\ \A j \in 1..Len(repeatable) :
                    j # i => repeatable[j].Description # repeatable[i].Description )
               => ~Installed(log', "rep", i) ]_vars

\* a Migrate call has reinstalled a repeatable migration whose script
\* changed: the history holds an older record for its description with
\* another checksum, and no other registered migration has its description
C2_Witness ==
  /\ IsCall("Migrate")
  /\ DistinctDescriptions(repeatable)
  /\ \E i \in 1..Len(repeatable) :
       LET rs == RowsFor(history, repeatable[i].Description)
       IN /\ Installed(log, "rep", i)
          /\ Len(rs) = 2
          /\ rs[1].Checksum # repeatable[i].Checksum
          /\ rs[2].Checksum = repeatable[i].Checksum

(***************************************************************************)
(* C3.  Fatal history: when the history Migrate reads holds a sequential   *)
(* record whose status is failed, or is neither success nor failed,        *)
(* Migrate returns an error, runs no callable and writes no record,        *)
(* whatever is registered.                                                 *)
(***************************************************************************)
C3_FatalHistory ==
  [][ ( /\ call'.op = "Migrate"
        /\ \E k \in 1..Len(history) :
             ~IsRepeatable(history[k]) /\ history[k].Status # StatusSuccess )
      => ( /\ call'.err \in {ErrFailedMigration, ErrUnknownStatus}
           /\ history' = history
           /\ runs' = runs
           /\ log' = <<>> ) ]_vars

\* Migrate has refused a history with a record of unknown status, with a
\* repeatable migration registered that has a callable and no record
C3_Witness ==
  /\ IsCall("Migrate")
  /\ call.err = ErrUnknownStatus
  /\ \E i \in 1..Len(repeatable) :
       repeatable[i].Execute = "fn" /\ RowsFor(history, repeatable[i].Description) = <<>>

(***************************************************************************)
(* C4.  Ranks: the ranks in the history are 1..N without gap or duplicate, *)
(* and the rank of a record is its position in insertion order.            *)
(***************************************************************************)
C4_Ranks == \A k \in 1..Len(history) : history[k].Rank = k

\* three install attempts recorded by more than one Migrate call
C4_Witness ==
  /\ IsCall("Migrate")
  /\ Len(history) >= 3
  /\ \A k \in 1..Len(history) : history[k].Type # TypeBaseline
  /\ Len(Installs(log)) = 1

(***************************************************************************)
(* C5.  At most once: with the registry fixed and no Clean, the callable   *)
(* of a registered sequential migration runs at most once, in whatever     *)
(* order the versions were registered.  (Stated for pairwise distinct      *)
(* versions.)                                                              *)
(***************************************************************************)
C5_AtMostOnce ==
  DistinctVersions(migrations) => \A i \in 1..Len(migrations) : runs.seq[i] <= 1

(***************************************************************************)
(* C6.  Ascending order: the sequential records of the history, in rank    *)
(* order, have strictly increasing versions, in whatever order the         *)
(* versions were registered.  (Stated for pairwise distinct versions.)     *)
(***************************************************************************)
C6_Ascending ==
  DistinctVersions(migrations) =>
    \A j, k \in 1..Len(history) :
      ( /\ ~IsRepeatable(history[j]) /\ ~IsRepeatable(history[k])
        /\ history[j].Rank < history[k].Rank )
      => Num(history[j].Version) < Num(history[k].Version)

(***************************************************************************)
(* C7.  Baseline precondition: Baseline on a non-empty history returns an  *)
(* error, writes no record and runs no callable.                           *)
(***************************************************************************)
C7_BaselinePrecondition ==
  [][ (call'.op = "Baseline" /\ history # <<>>)
      => ( /\ call'.err = ErrBaseline
           /\ history' = history
           /\ runs' = runs
           /\ log' = <<>> ) ]_vars

\* Baseline has been refused on a history that leaves a registered
\* sequential migration pending
C7_Witness ==
  /\ IsCall("Baseline")
  /\ call.err = ErrBaseline
  /\ history # <<>>
  /\ \E i \in 1..Len(migrations) :
       /\ migrations[i].Execute = "fn"
       /\ \A k \in 1..Len(history) : Num(history[k].Version) < Num(migrations[i].Version)

(***************************************************************************)
(* C8.  Baseline effect.                                                   *)
(***************************************************************************)
\* what Baseline(v, d) on an empty history leaves to install: the sequential
\* migrations above v, then the repeatable migrations due after the baseline
\* record, in the order of the registry
AfterBaseline(v, d) ==
  SelectSeq(Order(migrations, repeatable),
            LAMBDA o : IF o.kind = "seq"
                         THEN Num(migrations[o.idx].Version) > Num(v)
                         ELSE Due(<<BaselineRecord(v, d)>>, repeatable[o.idx]))

\* the baseline record is row 1 and the only row of its type
OneBaselineRow(h, v, d) ==
  /\ h # <<>>
  /\ h[1] = BaselineRecord(v, d)
  /\ \A k \in 2..Len(h) : h[k].Type # TypeBaseline

\* C8 as stated: Baseline(v, d) on an empty history writes one record (rank
\* 1, v, d, baseline, success) and runs Migrate, so that every registered
\* sequential migration above v is installed with ranks from 2 and the
\* pending repeatable migrations follow.  (Stated for registries in which
\* every migration has a callable.)
C8_BaselineAsStated ==
  [][ (call'.op = "Baseline" /\ history = <<>> /\ ~SomeNil)
      => LET want == AfterBaseline(call'.version, call'.description)
         IN /\ OneBaselineRow(history', call'.version, call'.description)
            /\ \A k \in 1..Len(want) : Installed(log', want[k].kind, want[k].idx) ]_vars

\* C8 as amended: Baseline(v, d) on an empty history writes one record (rank
\* 1, v, d, baseline, success) without running a callable for it and runs
\* Migrate: the registered sequential migrations above v, then the pending
\* repeatable migrations, are installed in registration order with ranks 2,
\* 3, ... up to the first install that returns an error, and all of them
\* when no install returns an error.
C8_BaselineEffect ==
  [][ (call'.op = "Baseline" /\ history = <<>>)
      => LET want == AfterBaseline(call'.version, call'.description)
             got == Installs(log')
         IN /\ OneBaselineRow(history', call'.version, call'.description)
            /\ Len(got) <= Len(want)
            /\ Len(history') = 1 + Len(got)
            /\ \A k \in 1..Len(got) :
                 LET mig == Entry(migrations, repeatable, want[k])
                 IN /\ got[k].kind = want[k].kind
                    /\ got[k].idx = want[k].idx
                    /\ history'[k + 1].Rank = k + 1
                    /\ history'[k + 1].Version = mig.Version
                    /\ history'[k + 1].Description = mig.Description
                    /\ history'[k + 1].Status = StatusFailed
                         => (k = Len(got) /\ call'.err = ErrExecute)
            /\ \A k \in 1..(Len(migrations) + Len(repeatable)) :
                 LET o == Order(migrations, repeatable)[k]
                 IN runs'[o.kind][o.idx] =
                      runs[o.kind][o.idx] + (IF Installed(log', o.kind, o.idx) THEN 1 ELSE 0)
            /\ call'.err = ErrNil => Len(got) = Len(want)
            /\ call'.err # ErrNil =>
                 \/ /\ call'.err = ErrExecute
                    /\ history'[Len(history')].Status = StatusFailed
                 \/ /\ call'.err = ErrCannotExecute
                    /\ Len(got) < Len(want)
                    /\ Entry(migrations, repeatable, want[Len(got) + 1]).Execute = "nil" ]_vars

\* Baseline on an empty history has skipped nothing it should install: the
\* baseline record, then a sequential migration above it, then a repeatable
C8_Witness ==
  /\ IsCall("Baseline")
  /\ call.err = ErrNil
  /\ Len(history) = 3
  /\ history[1].Type = TypeBaseline
  /\ ~IsRepeatable(history[2]) /\ Num(history[2].Version) > Num(history[1].Version)
  /\ IsRepeatable(history[3])

(***************************************************************************)
(* C9.  Baseline suppression: once Baseline(v, d) has written its record   *)
(* on an empty history, no Migrate call of any registry runs or records a  *)
(* sequential migration whose version is numerically <= v.                 *)
(***************************************************************************)
C9_BaselineSuppression ==
  (history # <<>> /\ history[1].Type = TypeBaseline)
  => /\ \A k \in 2..Len(history) :
          ~IsRepeatable(history[k]) => Num(history[k].Version) > Num(history[1].Version)
     /\ \A i \in 1..Len(migrations) :
          Installed(log, "seq", i) => Num(migrations[i].Version) > Num(history[1].Version)
     /\ \A i \in 1..Len(migrations) :
          runs.seq[i] > 0 => Num(migrations[i].Version) > Num(history[1].Version)

\* a later process has run Migrate on a baselined database and skipped a
\* registered migration at the baseline version, after one above it was
\* installed
C9_Witness ==
  /\ IsCall("Migrate")
  /\ starts = 2
  /\ Len(history) >= 2
  /\ history[1].Type = TypeBaseline
  /\ \E i \in 1..Len(migrations) :
       /\ Said(log, "skipping installed migration", "seq", i)
       /\ Num(migrations[i].Version) <= Num(history[1].Version)
       /\ migrations[i].Execute = "fn"

(***************************************************************************)
(* C10.  Abort on the first failure: when an install returns an error      *)
(* during Migrate, Migrate returns that error at once; no migration that   *)
(* follows in the registry (sequential, then repeatable) is run or         *)
(* recorded in that call.                                                  *)
(***************************************************************************)
C10_AbortOnFailure ==
  [][ call'.op = "Migrate" =>
        LET ord == Order(migrations, repeatable)
            n == Len(log')
            new == Len(history') - Len(history)
        IN \* the registry is walked in order, one log line per migration
           /\ n <= Len(ord)
           /\ \A k \in 1..n : log'[k].kind = ord[k].kind /\ log'[k].idx = ord[k].idx
           \* one record per callable run
           /\ new = Len(Installs(log'))
           /\ \A k \in 1..Len(ord) :
                runs'[ord[k].kind][ord[k].idx] =
                  runs[ord[k].kind][ord[k].idx]
                    + (IF Installed(log', ord[k].kind, ord[k].idx) THEN 1 ELSE 0)
           \* a failed execution is the last thing the call did
           /\ \A k \in (Len(history) + 1)..Len(history') :
                history'[k].Status = StatusFailed
                  => /\ k = Len(history')
                     /\ call'.err = ErrExecute
                     /\ log'[n].msg = "installing"
           /\ call'.err = ErrExecute
                => (new > 0 /\ history'[Len(history')].Status = StatusFailed)
           \* a migration without callable stops the call where it stands
           /\ call'.err = ErrCannotExecute
                => (n < Len(ord) /\ Entry(migrations, repeatable, ord[n + 1]).Execute = "nil")
           \* without error the whole registry was walked
           /\ call'.err = ErrNil => n = Len(ord) ]_vars

\* the callable of the first of two pending sequential migrations failed:
\* Migrate returned its error and left the second alone
C10_Witness ==
  /\ IsCall("Migrate")
  /\ call.err = ErrExecute
  /\ Len(migrations) + Len(repeatable) = 2
  /\ log = <<[msg |-> "installing", kind |-> "seq", idx |-> 1]>>
  /\ Len(history) = 1
  /\ \A k \in 1..2 :
       Entry(migrations, repeatable, Order(migrations, repeatable)[k]).Execute = "fn"

\* the last operation was Migrate or Baseline
RanInstalls == IsCall("Migrate") \/ IsCall("Baseline")

\* the status a record must carry after its callable returned err
StatusFor(err) == IF err = ErrNil THEN StatusSuccess ELSE StatusFailed

(***************************************************************************)
(* C11.  Every attempt is recorded: each execution of a callable by        *)
(* install is followed at once by one RecordMigration call for the same    *)
(* migration (and install makes no other), the record handed over has      *)
(* status success when the callable returned no error and failed           *)
(* otherwise, and when that write succeeds the row is in the table and     *)
(* install returns the callable's own error: a failure ends the operation  *)
(* with that error, a success lets it go on.                               *)
(***************************************************************************)
C11_EveryAttemptRecorded ==
  RanInstalls =>
    /\ \A k \in 1..Len(io) :
         io[k].ev = "execute" =>
           /\ k < Len(io)
           /\ io[k + 1].ev = "record"
           /\ io[k + 1].kind = io[k].kind /\ io[k + 1].idx = io[k].idx
           /\ io[k + 1].status = StatusFor(io[k].err)
           /\ io[k + 1].err = ErrNil =>
                /\ \E r \in 1..Len(history) :
                     /\ history[r].Rank = io[k + 1].rank
                     /\ history[r].Status = io[k + 1].status
                /\ io[k].err # ErrNil => (k + 1 = Len(io) /\ call.err = io[k].err)
                /\ (io[k].err = ErrNil /\ k + 1 = Len(io))
                     => call.err \in {ErrNil, ErrCannotExecute}
    /\ \A k \in 1..Len(io) :
         (io[k].ev = "record" /\ io[k].kind # "") => (k > 1 /\ io[k - 1].ev = "execute")
    /\ Len(SelectSeq(io, LAMBDA e : e.ev = "execute")) = Len(Installs(log))

\* a callable failed under an adapter that also failed a call: the failed
\* attempt is in the table and the operation returned the callable's error
C11_Witness ==
  /\ RanInstalls
  /\ call.err = ErrExecute
  /\ Len(io) >= 2
  /\ io[Len(io) - 1].ev = "execute" /\ io[Len(io) - 1].err = ErrExecute
  /\ io[Len(io)].ev = "record" /\ io[Len(io)].err = ErrNil
  /\ history[Len(history)].Status = StatusFailed
  /\ \E k \in 1..Len(io) : io[k].ev = "record" /\ io[k].err # ErrNil

\* the call io[k] went to the adapter (not to a callable)
AdapterCall(e) == e.ev \in {"exists", "create", "list", "record"}

(***************************************************************************)
(* C12.  Adapter failures are fatal: when an adapter call made by Migrate  *)
(* or Baseline (the exists check, the creation of the table, the read of   *)
(* the history, a write of a record) returned an error, the operation      *)
(* returned an error and ran no callable after the failed call.            *)
(***************************************************************************)
C12_AdapterFailuresFatal ==
  RanInstalls =>
    \A k \in 1..Len(io) :
      (AdapterCall(io[k]) /\ io[k].err # ErrNil) =>
        /\ call.err # ErrNil
        /\ \A j \in (k + 1)..Len(io) : io[j].ev # "execute"

(***************************************************************************)
(* C18.  A record-write failure keeps the execution error: when a callable *)
(* returned an error E and the write of its record failed with R, the      *)
(* operation returns the record-migration error and that error carries     *)
(* both R and E.                                                           *)
(***************************************************************************)
C18_RecordFailureKeepsExecutionError ==
  RanInstalls =>
    \A k \in 1..Len(io) :
      (io[k].ev = "execute" /\ io[k].err # ErrNil
         /\ k < Len(io) /\ io[k + 1].ev = "record" /\ io[k + 1].err # ErrNil)
        => /\ call.err = ErrRecordMigration
           /\ io[k + 1].err \in call.wrapped
           /\ io[k].err \in call.wrapped

\* rows is old followed by zero or more rows
Extends(rows, old) ==
  /\ Len(rows) >= Len(old)
  /\ SubSeq(rows, 1, Len(old)) = old

(***************************************************************************)
(* C19.  The history is append-only: a call of Migrate, Baseline or Info   *)
(* changes and removes no existing record; the table after the call holds  *)
(* the rows it held before, in their order, followed by zero or more new   *)
(* rows.  (Clean is the one operation that removes records.)               *)
(***************************************************************************)
C19_AppendOnly ==
  [][ call'.op \in {"Migrate", "Baseline", "Info"} => Extends(history', history) ]_vars

\* a Migrate that found rows in the table, one of them of a failed attempt,
\* and wrote a new row behind them
C19_Witness ==
  /\ IsCall("Migrate")
  /\ \E k \in 1..Len(io) : io[k].ev = "record" /\ io[k].err = ErrNil
  /\ Len(SelectSeq(io, LAMBDA e : e.ev = "record" /\ e.err = ErrNil)) < Len(history)
  /\ history[1].Status = StatusFailed

\* the last record h holds for the description of the repeatable migration
\* mig is of a failed attempt and has the checksum of mig
FailedLast(h, mig) ==
  LET rs == RowsFor(h, mig.Description)
  IN /\ rs # <<>>
     /\ rs[Len(rs)].Status = StatusFailed
     /\ rs[Len(rs)].Checksum = mig.Checksum

\* every record of a sequential migration in h is one of a success
SequentialClean(h) ==
  \A k \in 1..Len(h) : ~IsRepeatable(h[k]) => h[k].Status = StatusSuccess

(***************************************************************************)
(* C20.  A failed repeatable migration neither blocks nor is retried: a    *)
(* Migrate call on a history whose only failed records are those of        *)
(* repeatable migrations does not return the failed-migration error, and   *)
(* a registered repeatable migration whose last record is a failed one     *)
(* with its present checksum is not executed by the call (it is skipped    *)
(* when the call gets to it), so it runs again only once its checksum      *)
(* differs from the recorded one.                                          *)
(***************************************************************************)
C20_FailedRepeatable ==
  [][ call'.op = "Migrate" =>
        /\ SequentialClean(history)
             => call'.err \notin {ErrFailedMigration, ErrUnknownStatus}
        /\ \A i \in 1..Len(repeatable) :
             FailedLast(history, repeatable[i]) =>
               /\ ~Installed(log', "rep", i)
               /\ runs'.rep[i] = runs.rep[i]
               /\ call'.err = ErrNil
                    => Said(log', "skipping repeatable migration", "rep", i) ]_vars

\* a Migrate that returned no error and skipped a repeatable migration whose
\* one record is that of its failed attempt
C20_Witness ==
  /\ IsCall("Migrate")
  /\ call.err = ErrNil
  /\ \E i \in 1..Len(repeatable) :
       /\ FailedLast(history, repeatable[i])
       /\ Said(log, "skipping repeatable migration", "rep", i)
       /\ runs.rep[i] = 1

\* process p has read the history
HasRead(p) ==
  \/ procs[p].pc \in {"loop", "record"}
  \/ procs[p].pc = "done" /\ procs[p].err # ErrAdapter

\* p and q read the same history: neither wrote before the other read
ReadTogether(p, q) ==
  /\ p # q
  /\ HasRead(p) /\ HasRead(q)
  /\ procs[p].installed = procs[q].installed

\* process p is through its first install: callable run, write attempted
Attempted(p) == Len(procs[p].io) >= 2

(***************************************************************************)
(* C13.  The race of concurrent runs: when two Migrate calls both read the *)
(* history before either writes, they decide alike; once one of them has   *)
(* run the callable of a pending migration the other, when it is done, has *)
(* run it too, both under the same rank, so the callable ran twice, and    *)
(* at least one of the two writes was rejected by the key on rank and      *)
(* ended its call with the record-migration error.  No two rows of the     *)
(* table share a rank.                                                     *)
(***************************************************************************)
C13_ConcurrentRace ==
  /\ \A p, q \in Procs :
       ReadTogether(p, q) =>
         /\ (procs[p].io # <<>> /\ procs[q].pc = "done") => Attempted(q)
         /\ (Attempted(p) /\ Attempted(q)) =>
              LET e == procs[p].io[1]
                  a == procs[p].io[2]
                  b == procs[q].io[2]
              IN /\ procs[q].io[1].kind = e.kind /\ procs[q].io[1].idx = e.idx
                 /\ a.rank = b.rank
                 /\ runs[e.kind][e.idx] >= 2
                 /\ a.err # ErrNil \/ b.err # ErrNil
                 /\ a.err # ErrNil
                      => (procs[p].pc = "done" /\ procs[p].err = ErrRecordMigration)
  /\ \A i, j \in 1..Len(history) : i # j => history[i].Rank # history[j].Rank

\* two calls that read the empty table together are done: both ran the
\* first sequential migration under rank 1, the write of one was rejected
C13_Witness ==
  \E p, q \in Procs :
    /\ ReadTogether(p, q)
    /\ procs[p].pc = "done" /\ procs[q].pc = "done"
    /\ Attempted(p) /\ Attempted(q)
    /\ procs[p].io[1].kind = "seq" /\ procs[q].io[1].kind = "seq"
    /\ procs[p].io[2].rank = 1 /\ procs[q].io[2].rank = 1
    /\ procs[p].io[2].err = ErrNil
    /\ procs[q].err = ErrRecordMigration
    /\ runs.seq[1] = 2

(***************************************************************************)
(* Vocabulary of the properties of the splitter, in terms of the script's  *)
(* text alone.                                                             *)
(***************************************************************************)
\* the k-th smallest member of the set S of numbers
Nth(S, k) == CHOOSE i \in S : Cardinality({j \in S : j < i}) = k - 1

\* the pieces of s between the occurrences of the character c
SplitAt(s, c) ==
  LET at == {i \in 1..Len(s) : s[i] = c}
      n == Cardinality(at)
      cut(k) == IF k = 0 THEN 0 ELSE IF k = n + 1 THEN Len(s) + 1 ELSE Nth(at, k)
  IN [k \in 1..(n + 1) |-> SubSeq(s, cut(k - 1) + 1, cut(k) - 1)]

Blank(c) == c \in {" ", "\t", "\r"}

\* l without the blanks at its two ends
Strip(l) ==
  LET ink == {i \in 1..Len(l) : ~Blank(l[i])}
  IN IF ink = {} THEN <<>>
     ELSE SubSeq(l, Nth(ink, 1), Nth(ink, Cardinality(ink)))

\* the lines of the script, each without the blanks at its ends; a newline
\* at the very end of the script opens no further line
TrimmedLines(script) ==
  LET ps == SplitAt(script, "\n")
      ls == IF ps[Len(ps)] = <<>> THEN SubSeq(ps, 1, Len(ps) - 1) ELSE ps
  IN [i \in 1..Len(ls) |-> Strip(ls[i])]

\* the line l ends with the text pat
Ends(l, pat) ==
  /\ Len(l) >= Len(pat)
  /\ \A i \in 1..Len(pat) : l[Len(l) - Len(pat) + i] = pat[i]

\* CREATE TRIGGER, CREATE TEMP TRIGGER or CREATE TEMPORARY TRIGGER stands in l
TriggerLine(l) ==
  \E w \in {KwCreate \o KwTrigger, KwCreate \o KwTemp \o KwTrigger,
            KwCreate \o KwTemporary \o KwTrigger} :
    \E i \in 1..Len(l) :
      /\ i + Len(w) - 1 <= Len(l)
      /\ \A j \in 1..Len(w) : l[i + j - 1] = w[j]

\* the lines ls with single newlines between them
RECURSIVE Joined(_)
Joined(ls) ==
  IF Len(ls) = 0 THEN <<>>
  ELSE IF Len(ls) = 1 THEN ls[1]
  ELSE Joined(SubSeq(ls, 1, Len(ls) - 1)) \o <<"\n">> \o ls[Len(ls)]

\* the lines of all the statements of ss, one after the other
RECURSIVE AllLines(_)
AllLines(ss) ==
  IF ss = <<>> THEN <<>> ELSE SplitAt(Head(ss), "\n") \o AllLines(Tail(ss))

NonEmpty(ls) == SelectSeq(ls, LAMBDA l : l # <<>>)

\* Statements was called on a script and returned
Split == IsCall("Statements")

(***************************************************************************)
(* C14.  The splitter never emits an unterminated fragment: the last line  *)
(* of every returned statement ends with ';', and with 'END;' when the     *)
(* statement is in trigger mode (its first line is a trigger head); the    *)
(* returned statements hold the lines of the script up to a line that ends *)
(* with ';' and none of the lines after it: what follows the last          *)
(* terminating line is in no statement.                                    *)
(***************************************************************************)
C14_NoUnterminatedFragment ==
  Split =>
    LET T == TrimmedLines(call.info.script)
        ss == call.info.ss
    IN /\ \A k \in 1..Len(ss) :
            LET ls == SplitAt(ss[k], "\n")
            IN /\ Ends(ls[Len(ls)], StatementEnd)
               /\ TriggerLine(ls[1]) => Ends(ls[Len(ls)], TriggerEnd)
       /\ \E m \in 0..Len(T) :
            /\ m = 0 <=> ss = <<>>
            /\ m > 0 => Ends(T[m], StatementEnd)
            /\ NonEmpty(AllLines(ss)) = NonEmpty(SubSeq(T, 1, m))

\* a script of a statement and, behind it, a line without terminator:
\* the statement is returned, the line is not
C14_Witness ==
  /\ Split
  /\ Len(call.info.ss) = 1
  /\ LET T == TrimmedLines(call.info.script)
     IN /\ Len(T) >= 3
        /\ T[Len(T)] = <<"c">>
        /\ Ends(T[Len(T) - 1], StatementEnd)

\* the first line of T behind line e that is not empty (Len(T) + 1: none)
NextLine(T, e) ==
  LET ink == {i \in (e + 1)..Len(T) : T[i] # <<>>}
  IN IF ink = {} THEN Len(T) + 1 ELSE Nth(ink, 1)

\* where statement k of ss ends in T, when every statement begins at the
\* first non-empty line behind the one before it: the place its text has
\* in the script
RECURSIVE EndOf(_, _, _)
EndOf(T, ss, k) ==
  IF k = 0 THEN 0
  ELSE NextLine(T, EndOf(T, ss, k - 1)) + Len(SplitAt(ss[k], "\n")) - 1

StartOf(T, ss, k) == NextLine(T, EndOf(T, ss, k - 1))

(***************************************************************************)
(* C15.  Trigger bodies stay whole: a statement whose first non-empty line *)
(* is a trigger head ends at the first line from there on (the head        *)
(* included) that ends with 'END;', lines ending with ';' before it do not *)
(* end it, and the statement returned is those lines, each trimmed, with   *)
(* single newlines between them; without such a line nothing is returned   *)
(* for it.  The mode does not carry over: the statement behind a trigger   *)
(* that does not begin with a trigger head ends at its first line ending   *)
(* with ';'.                                                               *)
(***************************************************************************)
C15_TriggerBodiesWhole ==
  Split =>
    LET T == TrimmedLines(call.info.script)
        ss == call.info.ss
        rest == StartOf(T, ss, Len(ss) + 1)
    IN /\ \A k \in 1..Len(ss) :
            LET a == StartOf(T, ss, k)
                b == EndOf(T, ss, k)
            IN /\ a <= b /\ b <= Len(T)
               /\ TriggerLine(T[a]) =>
                    /\ Ends(T[b], TriggerEnd)
                    /\ \A j \in a..(b - 1) : ~Ends(T[j], TriggerEnd)
                    /\ ss[k] = Joined(SubSeq(T, a, b))
               /\ (k > 1 /\ TriggerLine(T[StartOf(T, ss, k - 1)]) /\ ~TriggerLine(T[a])) =>
                    /\ Ends(T[b], StatementEnd)
                    /\ \A j \in a..(b - 1) : ~Ends(T[j], StatementEnd)
       /\ (rest <= Len(T) /\ TriggerLine(T[rest]))
            => \A j \in rest..Len(T) : ~Ends(T[j], TriggerEnd)

\* a trigger of three lines, the one in the middle ending with ';', is
\* returned whole, and the line behind it as a statement of its own
C15_Witness ==
  /\ Split
  /\ Len(call.info.ss) = 2
  /\ LET T == TrimmedLines(call.info.script)
     IN /\ Len(T) = 4
        /\ TriggerLine(T[1])
        /\ Ends(T[2], StatementEnd) /\ ~Ends(T[2], TriggerEnd)
        /\ Ends(T[3], TriggerEnd)
        /\ call.info.ss[1] = Joined(SubSeq(T, 1, 3))
        /\ call.info.ss[2] = T[4]

(***************************************************************************)
(* C16.  Normal statements split per terminating line: for a script none   *)
(* of whose lines is a trigger head, Statements returns one statement per  *)
(* line that ends with ';' after trimming, in the order of those lines;    *)
(* statement k is the trimmed lines behind terminating line k - 1 up to    *)
(* terminating line k, from the first non-empty one on, joined by single   *)
(* newlines, so that the empty lines before and between statements are in  *)
(* no statement and no statement begins with an empty line.                *)
(***************************************************************************)
C16_SplitPerTerminator ==
  Split =>
    LET T == TrimmedLines(call.info.script)
        ss == call.info.ss
        terms == {i \in 1..Len(T) : Ends(T[i], StatementEnd)}
        term(k) == IF k = 0 THEN 0 ELSE Nth(terms, k)
    IN (\A i \in 1..Len(T) : ~TriggerLine(T[i])) =>
         /\ Len(ss) = Cardinality(terms)
         /\ \A k \in 1..Len(ss) :
              /\ ss[k] = Joined(SubSeq(T, NextLine(T, term(k - 1)), term(k)))
              /\ ss[k] # <<>> /\ ss[k][1] # "\n"

\* a script of four lines without trigger: an empty line, a statement of
\* two lines, a statement of one line written between blanks
C16_Witness ==
  /\ Split
  /\ LET T == TrimmedLines(call.info.script)
     IN /\ Len(T) = 4
        /\ T[1] = <<>>
        /\ T[2] = <<"c">>
        /\ call.info.ss = <<Joined(<<T[2], T[3]>>), <<"b", ";">>>>
        /\ \E i \in 1..Len(call.info.script) : call.info.script[i] = "b"
             /\ i > 1 /\ call.info.script[i - 1] = " "

(***************************************************************************)
(* Vocabulary of the properties of the version comparison.                 *)
(***************************************************************************)
\* t is an optionally signed decimal numeral
Numeral(t) ==
  LET body == IF t # <<>> /\ t[1] \in {"+", "-"} THEN SubSeq(t, 2, Len(t)) ELSE t
  IN body # <<>> /\ \A i \in 1..Len(body) : body[i] \in Digits

\* the digits of the numeral t from its first digit that is not 0 on
Significant(t) ==
  LET ink == {i \in 1..Len(t) : t[i] \notin {"+", "-", "0"}}
  IN IF ink = {} THEN <<>> ELSE SubSeq(t, Nth(ink, 1), Len(t))

Negative(t) == Numeral(t) /\ t[1] = "-" /\ Significant(t) # <<>>

\* the magnitude x is smaller than the magnitude y: it has fewer digits, or
\* as many and the smaller digit where the two first differ
Smaller(x, y) ==
  \/ Len(x) < Len(y)
  \/ /\ Len(x) = Len(y)
     /\ \E i \in 1..Len(x) :
          /\ \A j \in 1..(i - 1) : x[j] = y[j]
          /\ DigitVal(x[i]) < DigitVal(y[i])

\* the integer value of a is at most that of b; a token that is no numeral
\* counts as 0
ValueAtMost(a, b) ==
  LET x == IF Numeral(a) THEN Significant(a) ELSE <<>>
      y == IF Numeral(b) THEN Significant(b) ELSE <<>>
  IN IF Negative(a) # Negative(b) THEN Negative(a)
     ELSE IF Negative(a) THEN ~Smaller(x, y)
     ELSE ~Smaller(y, x)

\* the value of a token within 64 bits: top is 1 for a value of 2^63 - 1 or
\* more, -1 for one of -2^63 or less, and n is the value otherwise
Within64(t) ==
  IF ~Numeral(t) THEN [top |-> 0, n |-> 0]
  ELSE IF Negative(t) /\ ~Smaller(Significant(t), MinInt64) THEN [top |-> -1, n |-> 0]
  ELSE IF ~Negative(t) /\ ~Smaller(Significant(t), MaxInt64) THEN [top |-> 1, n |-> 0]
  ELSE [top |-> 0, n |-> Num(t)]

ClampedAtMost(a, b) ==
  LET x == Within64(a)
      y == Within64(b)
  IN x.top < y.top \/ (x.top = y.top /\ (x.top # 0 \/ x.n <= y.n))

\* the examples of the comparison
Examples ==
  /\ LEQ(<<"1">>, <<"2">>) /\ LEQ(<<"5">>, <<"5">>)
  /\ ~LEQ(<<"2">>, <<"1">>) /\ ~LEQ(<<"1", "0">>, <<"9">>)

\* the history the last Migrate read: the table without the rows the call
\* wrote
ReadBy(h, events) ==
  SubSeq(h, 1, Len(h) - Len(SelectSeq(events, LAMBDA e : e.ev = "record" /\ e.err = ErrNil)))

\* the version of the last sequential record of h, VersionNone without one
LastSequential(h) ==
  LET sq == SelectSeq(h, LAMBDA r : ~IsRepeatable(r))
  IN IF sq = <<>> THEN VersionNone ELSE sq[Len(sq)].Version

\* C17 as stated: LEQ(a, b) is true exactly when the integer value of a is
\* at most that of b, a token that is no decimal integer counting as 0;
\* LEQ("1","2") and LEQ("5","5") are true, LEQ("2","1") and LEQ("10","9")
\* false; and Migrate skips, on every history, a sequential migration whose
\* version is non-numeric or 0.
C17_NumericAsStated ==
  /\ IsCall("LEQ") => (call.info.leq <=> ValueAtMost(call.info.a, call.info.b))
  /\ Examples
  /\ IsCall("Migrate") =>
       \A i \in 1..Len(migrations) :
         (~Numeral(migrations[i].Version) \/ Significant(migrations[i].Version) = <<>>)
           => ~Installed(log, "seq", i)

(***************************************************************************)
(* C17.  The version comparison is numeric: LEQ(a, b) is true exactly when *)
(* v(a) <= v(b), where v of an optionally signed decimal numeral is its    *)
(* integer value brought into the 64-bit range (2^63 - 1 for anything      *)
(* above, -2^63 for anything below) and v of any other token, the empty    *)
(* one included, is 0; LEQ("1","2") and LEQ("5","5") are true, LEQ("2","1")*)
(* and LEQ("10","9") false; and Migrate skips a sequential migration whose *)
(* version is non-numeric or 0 on every history whose last sequential      *)
(* record has no negative version.                                         *)
(***************************************************************************)
C17_Numeric ==
  /\ IsCall("LEQ") => (call.info.leq <=> ClampedAtMost(call.info.a, call.info.b))
  /\ Examples
  /\ (IsCall("Migrate") /\ ~Negative(LastSequential(ReadBy(history, io)))) =>
       \A i \in 1..Len(migrations) :
         (~Numeral(migrations[i].Version) \/ Significant(migrations[i].Version) = <<>>)
           => ~Installed(log, "seq", i)

\* Migrate passed over a migration of version "x" on a history whose last
\* sequential record has version 2
C17_Witness ==
  /\ IsCall("Migrate")
  /\ call.err = ErrNil
  /\ history # <<>>
  /\ LastSequential(ReadBy(history, io)) = <<"2">>
  /\ \E i \in 1..Len(migrations) :
       /\ migrations[i].Version = <<"x">>
       /\ Said(log, "skipping installed migration", "seq", i)

====
